---- MODULE Spec2Model ----
(***************************************************************************)
(* Model of art/attacks/evasion/feature_adversaries.py: the                *)
(* FeatureAdversaries evasion attack (construction, set_params, generate). *)
(*                                                                         *)
(* Real numbers are fixed-point tenths: 1.0 is UpperClip = 10, a delta of  *)
(* 0.1 is 1.  Samples are vectors of Dim coordinates.                      *)
(***************************************************************************)
EXTENDS Integers, Sequences, FiniteSets, TLC

\* ---------------------------------------------------------------- bounds
Dim == 2
MaxCount == 2

\* ------------------------------------------------------ program constants
LowerClip == 0
UpperClip == 10
DefaultBatchSize == 32

\* ---------------------------------------------------------- input domains
Coords == 1..Dim

IntLayer(n) == [type |-> "int", val |-> n]
DeltaVals == {-1, 0, 1, 2}
LayerVals == {IntLayer(0), IntLayer(1), [type |-> "bool", val |-> 1], [type |-> "str", val |-> 0]}
BatchVals == {0, DefaultBatchSize}

SampleVals == {LowerClip, UpperClip \div 2, UpperClip - 1, UpperClip + 2}
MidVals == {UpperClip \div 2, UpperClip - 1}
Samples == {[i \in Coords |-> IF i % 2 = 1 THEN a ELSE b] : a \in SampleVals, b \in MidVals}

None == [some |-> FALSE, val |-> <<>>]
Some(v) == [some |-> TRUE, val |-> v]
GuideArgs == {None} \cup {Some(v) : v \in Samples}

ClassifierKinds == {"ClassifierGradients", "Classifier"}
CollaboratorFailures == {"LayerIndexError", "BackendError"}
OptimizerFailure == "OptimizerError"

NoErr == [type |-> "none", about |-> "none"]
Err(t, a) == [type |-> t, about |-> a]

attack_params == {"delta", "layer", "batch_size"}

\* a keyword dictionary: the keys present and their values (absent keys
\* carry a fixed filler that is never read)
Kwargs(K, d, l, b) == [keys |-> K, delta |-> d, layer |-> l, batch_size |-> b]
NoKw == Kwargs({}, 0, IntLayer(0), 0)
KwargsSet ==
    {Kwargs(K, IF "delta" \in K THEN d ELSE 0,
               IF "layer" \in K THEN l ELSE IntLayer(0),
               IF "batch_size" \in K THEN b ELSE 0) :
        K \in SUBSET attack_params, d \in DeltaVals, l \in LayerVals, b \in BatchVals}

VARIABLES
    constructed,            \* a FeatureAdversaries instance exists
    classifier,             \* self.classifier
    delta, layer, batch_size, norm,     \* self.delta, self.layer, self.batch_size, self.norm
    pc,                     \* position inside generate: "idle" when no call is running
    lastOp, outcome, err, thrown,       \* the last operation, how it ended, its exception
    lastKw, prev,           \* arguments and pre-state of the last operation
    repeat,                 \* the last set_params repeated the arguments of the set_params before it
    x, y,                   \* arguments of the running / last generate
    lb, ub,                 \* the box of the running / last generate
    guide_representation,   \* activation of the guide
    x_i,                    \* the optimizer's current iterate
    x_adv,                  \* value returned by the last generate
    logged,                 \* logger.info(res) was emitted
    nGuide, nFunc, lastCall \* classifier invocations of the running / last generate

vars == <<constructed, classifier, delta, layer, batch_size, norm, pc, lastOp, outcome, err,
          thrown, lastKw, prev, repeat, x, y, lb, ub, guide_representation, x_i, x_adv, logged,
          nGuide, nFunc, lastCall>>

Cfg == [delta |-> delta, layer |-> layer, batch_size |-> batch_size]
NoCall == [arg |-> "none", layer |-> IntLayer(0), batch_size |-> 0]

Init ==
    /\ constructed = FALSE
    /\ classifier = "none"
    /\ delta = 0 /\ layer = IntLayer(0) /\ batch_size = 0 /\ norm = "unset"
    /\ pc = "idle"
    /\ lastOp = "none" /\ outcome = "none" /\ err = NoErr /\ thrown = "none"
    /\ lastKw = NoKw /\ repeat = FALSE
    /\ prev = [delta |-> 0, layer |-> IntLayer(0), batch_size |-> 0]
    /\ x = <<>> /\ y = None /\ lb = <<>> /\ ub = <<>>
    /\ guide_representation = <<>> /\ x_i = <<>> /\ x_adv = None
    /\ logged = FALSE /\ nGuide = 0 /\ nFunc = 0 /\ lastCall = NoCall

\* ------------------------------------------------------------ set_params
\* isinstance(v, int): bool is a subclass of int
IsInstanceInt(l) == l.type \in {"int", "bool"}

\* the base class's set_params: every key of kwargs that is an attack
\* parameter is assigned to the attribute of that name
AttackSetParams(c, kw) ==
    [delta      |-> IF "delta" \in kw.keys THEN kw.delta ELSE c.delta,
     layer      |-> IF "layer" \in kw.keys THEN kw.layer ELSE c.layer,
     batch_size |-> IF "batch_size" \in kw.keys THEN kw.batch_size ELSE c.batch_size]

\* variant: the batch_size check is missing
CheckParamsNoBatch(c) ==
    IF c.delta <= 0 THEN Err("ValueError", "delta")
    ELSE IF ~IsInstanceInt(c.layer) THEN Err("ValueError", "layer")
    ELSE NoErr

\* the three checks, in order, on the attributes of the instance
CheckParams(c) ==
    IF c.delta <= 0 THEN Err("ValueError", "delta")
    ELSE IF ~IsInstanceInt(c.layer) THEN Err("ValueError", "layer")
    ELSE IF c.batch_size <= 0 THEN Err("ValueError", "batch_size")
    ELSE NoErr

\* variant: delta is added to the stored delta instead of replacing it
SetParamsResultAccumulate(c, kw) ==
    LET saved == AttackSetParams(c, kw)
        moved == IF "delta" \in kw.keys
                 THEN [saved EXCEPT !.delta = IF c.delta + kw.delta > 3 THEN 3 ELSE c.delta + kw.delta]
                 ELSE saved
    IN  [cfg |-> moved, err |-> CheckParams(moved)]

\* what set_params leaves in the attributes, and the exception it ends with
SetParamsResult(c, kw) ==
    LET saved == AttackSetParams(c, kw)
    IN  [cfg |-> saved, err |-> CheckParams(saved)]

ResetGenerate ==
    /\ x' = <<>> /\ y' = None /\ lb' = <<>> /\ ub' = <<>>
    /\ guide_representation' = <<>> /\ x_i' = <<>> /\ x_adv' = None
    /\ logged' = FALSE /\ nGuide' = 0 /\ nFunc' = 0 /\ lastCall' = NoCall

set_params(kw) ==
    /\ constructed /\ pc = "idle"
    /\ LET r == SetParamsResult(Cfg, kw)
       IN  /\ delta' = r.cfg.delta
           /\ layer' = r.cfg.layer
           /\ batch_size' = r.cfg.batch_size
           /\ err' = r.err
           /\ outcome' = IF r.err = NoErr THEN "returned" ELSE "raised"
    /\ lastOp' = "set_params" /\ lastKw' = kw /\ prev' = Cfg
    /\ repeat' = (lastOp = "set_params" /\ lastKw = kw)
    /\ thrown' = "none"
    /\ ResetGenerate
    /\ UNCHANGED <<constructed, classifier, norm, pc>>

\* ------------------------------------------------------------- __init__
\* variant: the parameters are validated before the capability check
ConstructValidateFirst(c, d, l, b) ==
    /\ ~constructed /\ pc = "idle"
    /\ classifier' = c
    /\ lastOp' = "construct" /\ lastKw' = Kwargs(attack_params, d, l, b) /\ prev' = Cfg
    /\ repeat' = FALSE
    /\ thrown' = "none"
    /\ ResetGenerate
    /\ UNCHANGED pc
    /\ LET r == SetParamsResult(Cfg, Kwargs(attack_params, d, l, b))
           e == IF r.err # NoErr THEN r.err
                ELSE IF c # "ClassifierGradients" THEN Err("ClassifierError", "classifier")
                ELSE NoErr
       IN  /\ delta' = r.cfg.delta
           /\ layer' = r.cfg.layer
           /\ batch_size' = r.cfg.batch_size
           /\ err' = e
           /\ outcome' = IF e = NoErr THEN "returned" ELSE "raised"
           /\ constructed' = (e = NoErr)
           /\ norm' = IF e = NoErr THEN "inf" ELSE norm

\* super().__init__(classifier), the capability check, set_params, self.norm
Construct(c, d, l, b) ==
    /\ ~constructed /\ pc = "idle"
    /\ classifier' = c
    /\ lastOp' = "construct" /\ lastKw' = Kwargs(attack_params, d, l, b) /\ prev' = Cfg
    /\ repeat' = FALSE
    /\ thrown' = "none"
    /\ ResetGenerate
    /\ UNCHANGED pc
    /\ IF c # "ClassifierGradients"
       THEN /\ err' = Err("ClassifierError", "classifier")
            /\ outcome' = "raised"
            /\ UNCHANGED <<constructed, delta, layer, batch_size, norm>>
       ELSE LET r == SetParamsResult(Cfg, Kwargs(attack_params, d, l, b))
            IN  /\ delta' = r.cfg.delta
                /\ layer' = r.cfg.layer
                /\ batch_size' = r.cfg.batch_size
                /\ err' = r.err
                /\ outcome' = IF r.err = NoErr THEN "returned" ELSE "raised"
                /\ constructed' = (r.err = NoErr)
                /\ norm' = IF r.err = NoErr THEN "inf" ELSE norm

\* -------------------------------------------------------------- generate
Max(a, b) == IF a >= b THEN a ELSE b
Min(a, b) == IF a <= b THEN a ELSE b

RECURSIVE SumTo(_, _)
SumTo(v, n) == IF n = 0 THEN 0 ELSE v[n] + SumTo(v, n - 1)
Sum(v) == SumTo(v, Len(v))

\* lb = x.flatten() - self.delta; lb[lb < 0.0] = 0.0
LowerBound(xs, d) == [i \in Coords |-> IF xs[i] - d < LowerClip THEN LowerClip ELSE xs[i] - d]
\* variant: the upper bound is not clipped
UpperBoundNoClip(xs, d) == [i \in Coords |-> xs[i] + d]
\* ub = x.flatten() + self.delta; ub[ub > 1.0] = 1.0
UpperBound(xs, d) == [i \in Coords |-> IF xs[i] + d > UpperClip THEN UpperClip ELSE xs[i] + d]

\* the classifier collaborator: layer 0 returns its raw input, every other
\* layer a one-element pooled activation
get_activations(v, l) == IF l = IntLayer(0) THEN v ELSE <<Sum(v)>>

\* norm(a - b, ord=2) ** 2
SqNorm(a, b) == Sum([i \in 1..Len(a) |-> (a[i] - b[i]) * (a[i] - b[i])])

\* variant: the raw difference is summed, without the norm
funcRawDifference(z, guide, l) ==
    LET a == get_activations(z, l) IN Sum([i \in 1..Len(a) |-> a[i] - guide[i]])

\* the objective: squared distance of the candidate's activation to the guide's
func(z, guide, l) == SqNorm(get_activations(z, l), guide)

Call(a) == [arg |-> a, layer |-> layer, batch_size |-> batch_size]
Bump(n) == IF n < MaxCount THEN n + 1 ELSE n

InBox(z, lo, hi) == \A i \in Coords : lo[i] <= z[i] /\ z[i] <= hi[i]
Feasible(lo, hi) == \A i \in Coords : lo[i] <= hi[i]
Clip(z, lo, hi) == [i \in Coords |-> Max(lo[i], Min(hi[i], z[i]))]
\* the trial points of one optimizer iteration: one coordinate moved one step
Trials(z, lo, hi) ==
    {t \in {[z EXCEPT ![i] = z[i] + s] : i \in Coords, s \in {-1, 1}} : InBox(t, lo, hi)}
Converged(z, lo, hi, guide, l) ==
    \A t \in Trials(z, lo, hi) : func(t, guide, l) >= func(z, guide, l)

\* the call ends: its locals are gone
EndCall(o, e, t, res) ==
    /\ pc' = "idle" /\ outcome' = o /\ err' = e /\ thrown' = t /\ x_adv' = res
    /\ lb' = <<>> /\ ub' = <<>> /\ guide_representation' = <<>> /\ x_i' = <<>>

\* variant: a missing guide does not end the call
generateFallback(xs, ys) ==
    /\ constructed /\ pc = "idle"
    /\ lastOp' = "generate" /\ lastKw' = NoKw /\ prev' = Cfg /\ repeat' = FALSE
    /\ x' = xs /\ y' = ys
    /\ logged' = FALSE /\ nGuide' = 0 /\ nFunc' = 0 /\ lastCall' = NoCall
    /\ pc' = "guide" /\ outcome' = "none" /\ err' = NoErr /\ thrown' = "none"
    /\ x_adv' = None
    /\ lb' = LowerBound(xs, delta) /\ ub' = UpperBound(xs, delta)
    /\ guide_representation' = <<>> /\ x_i' = <<>>
    /\ UNCHANGED <<constructed, classifier, delta, layer, batch_size, norm>>

\* lines 91-97, and the evaluation of y.reshape(...) of line 100
generate(xs, ys) ==
    /\ constructed /\ pc = "idle"
    /\ lastOp' = "generate" /\ lastKw' = NoKw /\ prev' = Cfg /\ repeat' = FALSE
    /\ x' = xs /\ y' = ys
    /\ logged' = FALSE /\ nGuide' = 0 /\ nFunc' = 0 /\ lastCall' = NoCall
    /\ IF ys = None
       THEN EndCall("raised", Err("AttributeError", "y"), "none", None)
       ELSE /\ pc' = "guide" /\ outcome' = "none" /\ err' = NoErr /\ thrown' = "none"
            /\ x_adv' = None
            /\ lb' = LowerBound(xs, delta) /\ ub' = UpperBound(xs, delta)
            /\ guide_representation' = <<>> /\ x_i' = <<>>
    /\ UNCHANGED <<constructed, classifier, delta, layer, batch_size, norm>>

\* variant: a failed activation call is tried again
GuideCallRetry(fail) ==
    /\ pc = "guide"
    /\ nGuide' = Bump(nGuide) /\ lastCall' = Call("guide")
    /\ IF fail # "ok"
       THEN /\ thrown' = fail
            /\ UNCHANGED <<pc, outcome, err, x_adv, lb, ub, x_i, guide_representation>>
       ELSE /\ pc' = "minimize"
            /\ guide_representation' = get_activations(y.val, layer)
            /\ UNCHANGED <<outcome, err, thrown, x_adv, lb, ub, x_i>>
    /\ UNCHANGED <<constructed, classifier, delta, layer, batch_size, norm, lastOp, lastKw,
                   prev, repeat, x, y, logged, nFunc>>

\* lines 99-101: the guide's activation
GuideCall(fail) ==
    /\ pc = "guide"
    /\ nGuide' = Bump(nGuide) /\ lastCall' = Call("guide")
    /\ IF fail # "ok"
       THEN EndCall("raised", Err(fail, "get_activations"), fail, None)
       ELSE /\ pc' = "minimize"
            /\ guide_representation' = get_activations(y.val, layer)
            /\ UNCHANGED <<outcome, err, thrown, x_adv, lb, ub, x_i>>
    /\ UNCHANGED <<constructed, classifier, delta, layer, batch_size, norm, lastOp, lastKw,
                   prev, repeat, x, y, logged, nFunc>>

\* lines 112-114: x_0 = x.copy(); the optimizer takes the box and the start
MinimizeStart(fail) ==
    /\ pc = "minimize"
    /\ IF fail # "ok" \/ ~Feasible(lb, ub)
       THEN EndCall("raised", Err(OptimizerFailure, "minimize"), OptimizerFailure, None)
       ELSE /\ pc' = "iterate"
            /\ x_i' = Clip(x, lb, ub)
            /\ UNCHANGED <<outcome, err, thrown, x_adv, lb, ub, guide_representation>>
    /\ UNCHANGED <<constructed, classifier, delta, layer, batch_size, norm, lastOp, lastKw,
                   prev, repeat, x, y, logged, nGuide, nFunc, lastCall>>

\* variant: the guide's activation is recomputed in every objective evaluation
FuncEvalRecomputeGuide(z, fail) ==
    /\ pc = "iterate"
    /\ z \in (IF nFunc = 0 THEN {x_i} ELSE Trials(x_i, lb, ub))
    /\ nFunc' = Bump(nFunc) /\ lastCall' = Call("candidate")
    /\ nGuide' = Bump(nGuide)
    /\ IF fail # "ok"
       THEN EndCall("raised", Err(fail, "get_activations"), fail, None)
       ELSE /\ x_i' = IF func(z, guide_representation, layer) < func(x_i, guide_representation, layer)
                      THEN z ELSE x_i
            /\ UNCHANGED <<pc, outcome, err, thrown, x_adv, lb, ub, guide_representation>>
    /\ UNCHANGED <<constructed, classifier, delta, layer, batch_size, norm, lastOp, lastKw,
                   prev, repeat, x, y, logged>>

\* lines 103-110: one objective evaluation by the optimizer, at the start
\* point first and then at a trial point, which it keeps when it is better
FuncEval(z, fail) ==
    /\ pc = "iterate"
    /\ z \in (IF nFunc = 0 THEN {x_i} ELSE Trials(x_i, lb, ub))
    /\ nFunc' = Bump(nFunc) /\ lastCall' = Call("candidate")
    /\ IF fail # "ok"
       THEN EndCall("raised", Err(fail, "get_activations"), fail, None)
       ELSE /\ x_i' = IF func(z, guide_representation, layer) < func(x_i, guide_representation, layer)
                      THEN z ELSE x_i
            /\ UNCHANGED <<pc, outcome, err, thrown, x_adv, lb, ub, guide_representation>>
    /\ UNCHANGED <<constructed, classifier, delta, layer, batch_size, norm, lastOp, lastKw,
                   prev, repeat, x, y, logged, nGuide>>

\* lines 115-119: the optimizer has stopped; log and return res.x
Return ==
    /\ pc = "iterate" /\ nFunc > 0
    /\ Converged(x_i, lb, ub, guide_representation, layer)
    /\ logged' = TRUE
    /\ EndCall("returned", NoErr, "none", Some(x_i))
    /\ UNCHANGED <<constructed, classifier, delta, layer, batch_size, norm, lastOp, lastKw,
                   prev, repeat, x, y, nGuide, nFunc, lastCall>>

Outcomes == {"ok"} \cup CollaboratorFailures

Next ==
    \/ \E c \in ClassifierKinds, d \in DeltaVals, l \in LayerVals, b \in BatchVals :
          Construct(c, d, l, b)
    \/ \E kw \in KwargsSet : set_params(kw)
    \/ \E xs \in Samples, ys \in GuideArgs : generate(xs, ys)
    \/ \E f \in Outcomes : GuideCall(f)
    \/ \E f \in {"ok", OptimizerFailure} : MinimizeStart(f)
    \/ /\ pc = "iterate"
       /\ \E z \in {x_i} \cup Trials(x_i, lb, ub), f \in Outcomes : FuncEval(z, f)
    \/ Return

Spec == Init /\ [][Next]_vars
\* =================================================================== claims
IsValidConfig(c) == c.delta > 0 /\ IsInstanceInt(c.layer) /\ c.batch_size > 0
InUnitRange(v) == \A i \in Coords : LowerClip <= v[i] /\ v[i] <= UpperClip
HasInvalid(kw) ==
    \/ "delta" \in kw.keys /\ kw.delta <= 0
    \/ "layer" \in kw.keys /\ ~(kw.layer.type \in {"int", "bool"})
    \/ "batch_size" \in kw.keys /\ kw.batch_size <= 0
IsFullValid(kw) == kw.keys = attack_params /\ ~HasInvalid(kw)
Configured == lastOp = "set_params" \/ (lastOp = "construct" /\ classifier = "ClassifierGradients")
Generated == lastOp = "generate" /\ pc = "idle" /\ outcome = "returned"

\* C1: in every state of a constructed instance, also after a set_params that
\* raised, the stored delta is positive, the stored batch_size is positive and
\* the stored layer is an integer.
C1_ConfigAlwaysValid == constructed => IsValidConfig(Cfg)

\* C2 (amended): a construction on a capable classifier or a set_params whose parameters
\* hold a delta <= 0, a non-integer layer or a batch_size <= 0 ends in a
\* ValueError; with all three parameters given and valid it returns normally.
C2_RejectsInvalidAcceptsValid ==
    Configured =>
        /\ HasInvalid(lastKw) => (outcome = "raised" /\ err.type = "ValueError")
        /\ IsFullValid(lastKw) => (outcome = "returned" /\ err = NoErr)
\* the statement of C2 without the restriction to a capable classifier: every
\* construction and every set_params with an invalid parameter ends in a ValueError
C2_InvalidAlwaysValueError ==
    (lastOp \in {"construct", "set_params"} /\ HasInvalid(lastKw)) =>
        (outcome = "raised" /\ err.type = "ValueError")
C2_Witness ==
    /\ lastOp = "set_params" /\ lastKw.keys = {"batch_size"} /\ lastKw.batch_size <= 0
    /\ prev.delta > 0 /\ IsInstanceInt(prev.layer)
    /\ outcome = "raised" /\ err = Err("ValueError", "batch_size")

\* C3: under a valid configuration and a source with all elements in [0,1],
\* every coordinate of the returned sample, of every iterate of the optimizer
\* and of the starting point lies in [max(0, x_i - delta), min(1, x_i + delta)].
C3_BoxConstraint ==
    (IsValidConfig(Cfg) /\ lastOp = "generate" /\ InUnitRange(x)) =>
        /\ Generated =>
              \A i \in Coords : /\ Max(LowerClip, x[i] - delta) <= x_adv.val[i]
                                /\ x_adv.val[i] <= Min(UpperClip, x[i] + delta)
        /\ pc = "iterate" =>
              \A i \in Coords : /\ Max(LowerClip, x[i] - delta) <= x_i[i]
                                /\ x_i[i] <= Min(UpperClip, x[i] + delta)
        /\ (pc = "iterate" /\ nFunc = 0) => x_i = x
C3_Witness ==
    /\ Generated /\ IsValidConfig(Cfg) /\ InUnitRange(x)
    /\ x[1] + delta > UpperClip /\ x_adv.val[1] = UpperClip
    /\ x_adv.val # x

\* C4: a generate call without guide samples ends in an error, returns no
\* sample and never gets as far as a classifier call.
C4_MissingGuideFails ==
    (lastOp = "generate" /\ y = None) =>
        (pc = "idle" /\ outcome = "raised" /\ x_adv = None /\ nGuide = 0 /\ nFunc = 0)
C4_Witness ==
    /\ lastOp = "generate" /\ y = None /\ IsValidConfig(Cfg) /\ InUnitRange(x)
    /\ outcome = "raised" /\ err.type = "AttributeError"

\* C5: a construction on a classifier without the gradients capability ends in
\* a ClassifierError whatever the parameters are, also invalid ones, and leaves
\* no instance.
C5_CapabilityErrorFirst ==
    (lastOp = "construct" /\ classifier # "ClassifierGradients") =>
        (outcome = "raised" /\ err.type = "ClassifierError" /\ ~constructed)
C5_Witness ==
    /\ lastOp = "construct" /\ classifier = "Classifier" /\ HasInvalid(lastKw)
    /\ err.type = "ClassifierError" /\ ~constructed

\* C6: with the identity layer, source and guide in [0,1] and the guide more
\* than delta above the source in every coordinate, generate returns every
\* coordinate at min(1, x_i + delta); x = 0.5, y = 0.9, delta = 0.1 gives 0.6.
C6_PushedToUpperBound ==
    (Generated /\ layer = IntLayer(0) /\ InUnitRange(x) /\ InUnitRange(y.val)
               /\ \A i \in Coords : y.val[i] > x[i] + delta) =>
        \A i \in Coords : x_adv.val[i] = Min(UpperClip, x[i] + delta)
C6_Witness ==
    /\ Generated /\ layer = IntLayer(0) /\ delta = 1
    /\ x = [i \in Coords |-> 5] /\ y = Some([i \in Coords |-> 9])
    /\ x_adv = Some([i \in Coords |-> 6])

\* C7: a set_params call that repeats the valid dictionary of the set_params
\* call right before it leaves delta, layer and batch_size as that call left them.
C7_SetParamsIdempotent ==
    (lastOp = "set_params" /\ repeat /\ ~HasInvalid(lastKw)) => Cfg = prev
C7_Witness ==
    /\ lastOp = "set_params" /\ repeat /\ ~HasInvalid(lastKw)
    /\ lastKw.keys = {"delta"} /\ lastKw.delta = 2 /\ outcome = "returned"

\* C8: a set_params call that raises has stored none of its parameters: delta,
\* layer and batch_size are what they were before the call.
C8_ChecksBeforeSave ==
    (lastOp = "set_params" /\ outcome = "raised") => Cfg = prev

\* C9: in one generate call the guide's activation is extracted once, before
\* the first objective evaluation; every classifier call uses the layer and
\* batch_size of the call's start, and the objective keeps comparing against
\* the activation of the guide extracted by that one call.
C9_GuideOnceBeforeObjective ==
    lastOp = "generate" =>
        /\ nGuide <= 1
        /\ nFunc > 0 => nGuide = 1
        /\ pc \in {"minimize", "iterate"} => nGuide = 1
        /\ Generated => (nGuide = 1 /\ nFunc > 0)
        /\ lastCall.arg # "none" =>
              (lastCall.layer = prev.layer /\ lastCall.batch_size = prev.batch_size)
        /\ pc = "iterate" => guide_representation = get_activations(y.val, prev.layer)
C9_Witness ==
    /\ Generated /\ nGuide = 1 /\ nFunc >= 2 /\ lastCall.arg = "candidate"
    /\ x_adv.val # x

\* C10: a failure of the classifier or of the optimizer inside generate ends
\* the call with that same failure: nothing is called after it, no sample is
\* returned, and delta, layer and batch_size are unchanged.
C10_FailurePropagates ==
    (lastOp = "generate" /\ thrown # "none") =>
        /\ pc = "idle" /\ outcome = "raised" /\ err.type = thrown
        /\ x_adv = None /\ ~logged
        /\ Cfg = prev
        /\ lastCall.arg = "guide" => (nGuide = 1 /\ nFunc = 0)
C10_Witness ==
    /\ lastOp = "generate" /\ thrown \in CollaboratorFailures /\ err.type = thrown
    /\ lastCall.arg = "candidate" /\ nFunc >= 2 /\ outcome = "raised"
====
